---- MODULE Spec2Model ----
(***************************************************************************)
(* Model of mambavision/models/trans_mamba_ord.py: the four-way scan and   *)
(* its reversal, SoftSort, the window partition utilities, the TransMamba  *)
(* constructor with its registered variants, and the checkpoint loaders.   *)
(* Tensors are records [shape, data] with data in row-major order, and the *)
(* tensor operations are computed index by index as torch computes them.   *)
(***************************************************************************)
EXTENDS Integers, Sequences, FiniteSets, TLC

VARIABLES pc, x, x1, x2, x3, x4, y, scores, hard, tie, P_hat,
          win_x, window_size, windows, win_y,
          variant, levels, num_features, lvl, feat, err,
          params, checkpoint, state_dict, strict, logger, calls,
          unexpected_keys, all_missing_keys, load_errors,
          raised, warned, printed,
          mixer, hidden_states, xz, mx_x, mx_z, mx_y, mx_out, mx_err

scanVars == <<x, x1, x2, x3, x4, y>>
sortVars == <<scores, hard, tie, P_hat>>
winVars == <<win_x, window_size, windows, win_y>>
netVars == <<variant, levels, num_features, lvl, feat, err>>
loadVars == <<params, checkpoint, state_dict, strict, logger, calls,
              unexpected_keys, all_missing_keys, load_errors,
              raised, warned, printed>>
mixVars == <<mixer, hidden_states, xz, mx_x, mx_z, mx_y, mx_out, mx_err>>
vars == <<pc, scanVars, sortVars, winVars, netVars, loadVars, mixVars>>

(* ---------------- bounds of the model ---------------- *)
MaxB == 3
MaxHalf == 2
MaxC == 2
MaxStart == 3
MaxN == 4
MaxScore == 3
MaxSortB == 2
MaxWs == 2
MaxBlocks == 2
MaxImgSteps == 1
MaxKeys == 2
MaxD == 6
MaxL == 3
MaxExpand == 2

(* ---------------- tensors ---------------- *)
RECURSIVE Prod(_)
Prod(s) == IF s = <<>> THEN 1 ELSE Head(s) * Prod(Tail(s))

Numel(t) == Prod(t.shape)

Unravel(k, shape) ==
    [d \in 1..Len(shape) |->
        (k \div Prod(SubSeq(shape, d + 1, Len(shape)))) % shape[d]]

RECURSIVE RavelN(_, _, _)
RavelN(idx, shape, n) ==
    IF n = 0 THEN 0 ELSE RavelN(idx, shape, n - 1) * shape[n] + idx[n]

Ravel(idx, shape) == RavelN(idx, shape, Len(shape))

At(t, idx) == t.data[Ravel(idx, t.shape) + 1]

FromFn(shape, f(_)) ==
    [shape |-> shape,
     data  |-> [k \in 1..Prod(shape) |-> f(Unravel(k - 1, shape))]]

Empty == [shape |-> <<0>>, data |-> <<>>]

(* ---------------- the parts a specification leaves idle ---------------- *)
IdleScan == x = Empty /\ x1 = Empty /\ x2 = Empty /\ x3 = Empty /\ x4 = Empty /\ y = Empty

IdleSort == scores = <<>> /\ hard = FALSE /\ tie = "low" /\ P_hat = <<>>

IdleWin == win_x = Empty /\ window_size = 0 /\ windows = Empty /\ win_y = Empty

IdleLoad ==
    /\ params = <<>> /\ checkpoint = <<>> /\ state_dict = <<>>
    /\ strict = FALSE /\ logger = FALSE /\ calls = <<>>
    /\ unexpected_keys = {} /\ all_missing_keys = {} /\ load_errors = {}
    /\ raised = "none" /\ warned = <<>> /\ printed = <<>>

IdleMix ==
    /\ mixer = <<>> /\ hidden_states = <<>> /\ xz = <<>>
    /\ mx_x = <<>> /\ mx_z = <<>> /\ mx_y = <<>> /\ mx_out = <<>> /\ mx_err = "none"

IdleNet ==
    /\ variant = "" /\ levels = <<>> /\ num_features = 0
    /\ lvl = 0 /\ feat = <<>> /\ err = "none"

\* torch.Tensor.view / reshape of a contiguous tensor: same data, new shape
View(t, shape) == [shape |-> shape, data |-> t.data]

\* torch.Tensor.squeeze(dim) with dim counted from 0
Squeeze(t, dim) ==
    IF t.shape[dim + 1] = 1
    THEN View(t, SubSeq(t.shape, 1, dim) \o SubSeq(t.shape, dim + 2, Len(t.shape)))
    ELSE t

\* torch.Tensor.permute(dims), dims counted from 0, made contiguous
Permute(t, dims) ==
    FromFn([d \in 1..Len(dims) |-> t.shape[dims[d] + 1]],
           LAMBDA idx : At(t, [e \in 1..Len(dims) |->
               idx[CHOOSE d \in 1..Len(dims) : dims[d] + 1 = e]]))

\* torch.flip(t, dims), dims a set of dimensions counted from 0
Flip(t, dims) ==
    FromFn(t.shape,
           LAMBDA idx : At(t, [d \in 1..Len(t.shape) |->
               IF (d - 1) \in dims THEN t.shape[d] - 1 - idx[d] ELSE idx[d]]))

\* t[lo[1]:hi[1], lo[2]:hi[2], ...]
Slice(t, lo, hi) ==
    FromFn([d \in 1..Len(lo) |-> hi[d] - lo[d]],
           LAMBDA idx : At(t, [d \in 1..Len(lo) |-> idx[d] + lo[d]]))

\* t[lo[1]:hi[1], lo[2]:hi[2], ...] = src
SliceAssign(t, lo, hi, src) ==
    FromFn(t.shape,
           LAMBDA idx :
               IF \A d \in 1..Len(lo) : lo[d] <= idx[d] /\ idx[d] < hi[d]
               THEN At(src, [d \in 1..Len(lo) |-> idx[d] - lo[d]])
               ELSE At(t, idx))

\* int(np.sqrt(n))
ISqrt(n) == CHOOSE r \in 0..n : r * r <= n /\ (r + 1) * (r + 1) > n

\* torch.arange(start, start + numel).view(shape)
Arange(shape, start) == FromFn(shape, LAMBDA idx : start + Ravel(idx, shape))

(* ---------------- SoftSort ---------------- *)
Tau == 1
Pow == 1

Abs(n) == IF n < 0 THEN -n ELSE n

RECURSIVE IPow(_, _)
IPow(b, e) == IF e = 0 THEN 1 ELSE b * IPow(b, e - 1)

RECURSIVE SumSeq(_)
SumSeq(s) == IF s = <<>> THEN 0 ELSE Head(s) + SumSeq(Tail(s))

Range(s) == { s[j] : j \in 1..Len(s) }

SetMin(S) == CHOOSE m \in S : \A k \in S : m <= k
SetMax(S) == CHOOSE m \in S : \A k \in S : m >= k

\* scores.sort(descending=True, dim=1)[0] on one batch row
SortAscending(s) ==
    [i \in 1..Len(s) |->
        CHOOSE v \in Range(s) :
            /\ Cardinality({j \in 1..Len(s) : s[j] < v}) < i
            /\ i <= Cardinality({j \in 1..Len(s) : s[j] <= v})]

SortDescending(s) ==
    [i \in 1..Len(s) |->
        CHOOSE v \in Range(s) :
            /\ Cardinality({j \in 1..Len(s) : s[j] > v}) < i
            /\ i <= Cardinality({j \in 1..Len(s) : s[j] >= v})]

\* (scores.transpose(1, 2) - sorted).abs().pow(self.pow).neg() / self.tau
PairwiseDiff(s) ==
    LET sorted == SortDescending(s)
    IN  [i \in 1..Len(s) |->
            [j \in 1..Len(s) |-> (-IPow(Abs(s[j] - sorted[i]), Pow)) \div Tau]]

\* softmax(-1) of one row as exact fractions num/den; the weights are
\* powers of a base > 1, which keeps the order softmax gives the entries
Softmax(row) ==
    LET m   == SetMin(Range(row))
        num == [j \in 1..Len(row) |-> IPow(2, row[j] - m)]
        den == SumSeq(num)
    IN  [j \in 1..Len(row) |-> [num |-> num[j], den |-> den]]

\* P_hat.topk(1, -1)[1] on one row; which of several equal maxima is
\* returned is not specified, a build takes the lowest or the highest index
Topk1(row, t) ==
    LET best == {j \in 1..Len(row) : \A k \in 1..Len(row) : row[j].num >= row[k].num}
    IN  IF t = "low" THEN SetMin(best) ELSE SetMax(best)

\* P = zeros_like(P_hat); P.scatter_(-1, idx, value=1); (P - P_hat).detach() + P_hat
HardRow(row, idx) ==
    [j \in 1..Len(row) |->
        LET p == IF j = idx THEN 1 ELSE 0
        IN  [num |-> (p * row[j].den - row[j].num) + row[j].num, den |-> row[j].den]]

SoftSortRow(s, h, t) ==
    LET soft == [i \in 1..Len(s) |-> Softmax(PairwiseDiff(s)[i])]
    IN  IF h THEN [i \in 1..Len(s) |-> HardRow(soft[i], Topk1(soft[i], t))]
        ELSE soft

SoftSortForward(sc, h, t) == [b \in 1..Len(sc) |-> SoftSortRow(sc[b], h, t)]

Rotate(s, k) == [j \in 1..Len(s) |-> s[((j - 1 + k) % Len(s)) + 1]]

ScoreInputs ==
    UNION { { [b \in 1..B |-> Rotate(r, b - 1)] : r \in [1..n -> 0..MaxScore] } :
            n \in 1..MaxN, B \in 1..MaxSortB }

InitSort ==
    /\ pc = "sort_start"
    /\ scores \in ScoreInputs
    /\ hard \in BOOLEAN
    /\ tie \in {"low", "high"}
    /\ P_hat = <<>>
    /\ IdleScan /\ IdleWin /\ IdleNet /\ IdleLoad /\ IdleMix

SoftSortCall ==
    /\ pc = "sort_start"
    /\ P_hat' = SoftSortForward(scores, hard, tie)
    /\ pc' = "sorted"
    /\ UNCHANGED <<scores, hard, tie, scanVars, winVars, netVars, loadVars, mixVars>>

NextSort == SoftSortCall

SpecSort == InitSort /\ [][NextSort]_vars

IsOne(e) == e.num = e.den
IsZero(e) == e.num = 0

IsPermutationMatrix(M) ==
    /\ \A i \in 1..Len(M) : \A j \in 1..Len(M) : IsOne(M[i][j]) \/ IsZero(M[i][j])
    /\ \A i \in 1..Len(M) : Cardinality({j \in 1..Len(M) : IsOne(M[i][j])}) = 1
    /\ \A j \in 1..Len(M) : Cardinality({i \in 1..Len(M) : IsOne(M[i][j])}) = 1

Distinct(s) == \A j, k \in 1..Len(s) : j # k => s[j] # s[k]

\* C2: with hard=True the matrix returned for every score input is a
\* permutation matrix (one 1 per row and per column, all else 0)
C2_AlwaysPermutation ==
    (pc = "sorted" /\ hard) => \A b \in 1..Len(scores) : IsPermutationMatrix(P_hat[b])

\* C3: for pairwise distinct scores and hard=True, row i of the result has
\* its single 1 at the index of the i-th largest score and 0 elsewhere, so
\* applying it to the scores lists them in descending order
C3_SortsDescending ==
    (pc = "sorted" /\ hard) =>
        \A b \in 1..Len(scores) :
            Distinct(scores[b]) =>
                LET s == scores[b]
                    n == Len(s)
                    applied == [i \in 1..n |->
                        SumSeq([j \in 1..n |-> (P_hat[b][i][j].num \div P_hat[b][i][j].den) * s[j]])]
                IN  /\ \A i, j \in 1..n :
                            IF Cardinality({k \in 1..n : s[k] > s[j]}) = i - 1
                            THEN IsOne(P_hat[b][i][j]) ELSE IsZero(P_hat[b][i][j])
                    /\ \A i \in 1..(n - 1) : applied[i] > applied[i + 1]
                    /\ Range(applied) = Range(s)

C3_Witness ==
    /\ pc = "sorted" /\ hard
    /\ Len(scores) = 2
    /\ Len(scores[1]) = 4
    /\ Distinct(scores[1])
    /\ scores[1][1] < scores[1][3] /\ scores[1][3] < scores[1][2]
    /\ IsOne(P_hat[1][1][2])

(* ---------------- window_partition / window_reverse ---------------- *)
window_partition_swapped(t, ws) ==
    LET B == t.shape[1]
        C == t.shape[2]
        H == t.shape[3]
        W == t.shape[4]
        v == View(t, <<B, C, H \div ws, ws, W \div ws, ws>>)
        p == Permute(v, <<0, 4, 2, 3, 5, 1>>)
    IN  View(p, <<Numel(p) \div (ws * ws * C), ws * ws, C>>)

window_partition(t, ws) ==
    LET B == t.shape[1]
        C == t.shape[2]
        H == t.shape[3]
        W == t.shape[4]
        v == View(t, <<B, C, H \div ws, ws, W \div ws, ws>>)
        p == Permute(v, <<0, 2, 4, 3, 5, 1>>)
    IN  View(p, <<Numel(p) \div (ws * ws * C), ws * ws, C>>)

window_reverse_swapped(w, ws, H, W) ==
    LET B == w.shape[1] \div (((H * W) \div ws) \div ws)
        v == View(w, <<B, H \div ws, W \div ws, ws, ws,
                       Numel(w) \div (B * (H \div ws) * (W \div ws) * ws * ws)>>)
        p == Permute(v, <<0, 5, 1, 4, 2, 3>>)
    IN  View(p, <<B, w.shape[3], H, W>>)

window_reverse(w, ws, H, W) ==
    LET B == w.shape[1] \div (((H * W) \div ws) \div ws)
        v == View(w, <<B, H \div ws, W \div ws, ws, ws,
                       Numel(w) \div (B * (H \div ws) * (W \div ws) * ws * ws)>>)
        p == Permute(v, <<0, 5, 1, 3, 2, 4>>)
    IN  View(p, <<B, w.shape[3], H, W>>)

WinInputs ==
    { [t |-> Arange(<<B, C, ws * nh, ws * nw>>, s), ws |-> ws] :
        B \in 1..MaxB, C \in 1..MaxC, ws \in 1..MaxWs,
        nh \in 1..MaxBlocks, nw \in 1..MaxBlocks, s \in 0..MaxStart }

InitWin ==
    /\ pc = "win_start"
    /\ \E inp \in WinInputs : win_x = inp.t /\ window_size = inp.ws
    /\ windows = Empty /\ win_y = Empty
    /\ IdleScan /\ IdleSort /\ IdleNet /\ IdleLoad /\ IdleMix

WindowPartition ==
    /\ pc = "win_start"
    /\ win_x.shape[3] % window_size = 0 /\ win_x.shape[4] % window_size = 0
    /\ windows' = window_partition(win_x, window_size)
    /\ pc' = "partitioned"
    /\ UNCHANGED <<win_x, window_size, win_y, scanVars, sortVars, netVars, loadVars, mixVars>>

WindowReverse ==
    /\ pc = "partitioned"
    /\ win_y' = window_reverse(windows, window_size, win_x.shape[3], win_x.shape[4])
    /\ pc' = "win_reversed"
    /\ UNCHANGED <<win_x, window_size, windows, scanVars, sortVars, netVars, loadVars, mixVars>>

NextWin == WindowPartition \/ WindowReverse

SpecWin == InitWin /\ [][NextWin]_vars

\* C6: window_reverse(window_partition(x, ws), ws, H, W) equals x element by
\* element and has the shape (B, C, H, W) of x
C6_WindowRoundTrip ==
    pc = "win_reversed" => (win_y.shape = win_x.shape /\ win_y.data = win_x.data)

C6_Witness ==
    /\ pc = "win_reversed"
    /\ win_x.shape = <<2, 2, 4, 2>>
    /\ window_size = 2
    /\ windows.data # win_x.data
    /\ win_y = win_x

\* C7: window_partition(x, ws) has shape (B*(H/ws)*(W/ws), ws*ws, C) and its
\* entry [(b*(H/ws) + i)*(W/ws) + j, r*ws + c, ch] is x[b, ch, i*ws + r, j*ws + c]
C7_WindowLayout ==
    pc \in {"partitioned", "win_reversed"} =>
        LET B  == win_x.shape[1]
            C  == win_x.shape[2]
            nh == win_x.shape[3] \div window_size
            nw == win_x.shape[4] \div window_size
            ws == window_size
        IN  /\ windows.shape = <<B * nh * nw, ws * ws, C>>
            /\ Len(windows.data) = B * nh * nw * ws * ws * C
            /\ \A b \in 0..(B - 1), ch \in 0..(C - 1), i \in 0..(nh - 1),
                  j \in 0..(nw - 1), r \in 0..(ws - 1), c \in 0..(ws - 1) :
                    At(windows, <<(b * nh + i) * nw + j, r * ws + c, ch>>)
                        = At(win_x, <<b, ch, i * ws + r, j * ws + c>>)

C7_Witness ==
    /\ pc = "partitioned"
    /\ win_x.shape = <<2, 2, 2, 4>>
    /\ window_size = 2
    /\ At(windows, <<3, 2, 1>>) = At(win_x, <<1, 1, 1, 2>>)

(* ---------------- TransMamba and its registered variants ---------------- *)
\* the arguments each registered factory passes to TransMamba
Factories ==
    [TransMamba_T  |-> [depths |-> <<1, 3, 12>>, num_heads |-> <<2, 4, 8>>,
                        window_size |-> <<8, 8, 14>>, dim |-> 80, in_dim |-> 32],
     TransMamba_T2 |-> [depths |-> <<1, 3, 11, 4>>, num_heads |-> <<2, 4, 8, 16>>,
                        window_size |-> <<8, 8, 14, 7>>, dim |-> 80, in_dim |-> 32],
     TransMamba_S  |-> [depths |-> <<3, 3, 7, 5>>, num_heads |-> <<2, 4, 8, 16>>,
                        window_size |-> <<8, 8, 14, 7>>, dim |-> 96, in_dim |-> 64],
     TransMamba_B  |-> [depths |-> <<3, 3, 10, 5>>, num_heads |-> <<2, 4, 8, 16>>,
                        window_size |-> <<8, 8, 14, 7>>, dim |-> 128, in_dim |-> 64],
     TransMamba_L  |-> [depths |-> <<3, 3, 10, 5>>, num_heads |-> <<4, 8, 16, 32>>,
                        window_size |-> <<8, 8, 14, 7>>, dim |-> 196, in_dim |-> 64],
     TransMamba_L2 |-> [depths |-> <<3, 3, 12, 5>>, num_heads |-> <<4, 8, 16, 32>>,
                        window_size |-> <<8, 8, 14, 7>>, dim |-> 196, in_dim |-> 64]]

FactoryNames == DOMAIN Factories

\* conv = True if (i == 0 or i == 1) else False, i counted from 0
IsConvStageFirstOnly(i) == i = 0

IsConvStage(i) == i = 0 \/ i = 1

\* downsample=(i < 2), i counted from 0
HasDownsample(i) == i < 2

\* TransMambaLayer(dim=int(dim * 2 ** i), depth=depths[i], ...) for stage i from 0
MakeLevel(a, i) ==
    [dim         |-> a.dim * IPow(2, i),
     depth       |-> a.depths[i + 1],
     num_heads   |-> a.num_heads[i + 1],
     window_size |-> a.window_size[i + 1],
     conv        |-> IsConvStage(i),
     downsample  |-> HasDownsample(i)]

\* num_features = int(dim * 2 ** (len(depths) - 1))
NumFeatures(a) == a.dim * IPow(2, Len(a.depths) - 1)

\* Downsample.__init__: dim_out = dim if keep_dim else 2 * dim (keep_dim is never passed)
DownsampleOut(dim) == 2 * dim

\* nn.Conv2d(.., 3, 2, 1): output size along one spatial axis
ConvDown(n) == ((n + 2 * 1 - 3) \div 2) + 1

\* PatchEmbed.forward: conv_down = two stride-2 convolutions, in_chans -> in_dim -> dim
PatchEmbedForward(a, s) ==
    IF s[2] # 3
    THEN [shape |-> s, err |-> "RuntimeError"]
    ELSE [shape |-> <<s[1], a.dim, ConvDown(ConvDown(s[3])), ConvDown(ConvDown(s[4]))>>,
          err |-> "none"]

\* TransMambaLayer.forward on an activation of shape s = (B, C, H, W)
LevelForward(l, s) ==
    LET ws   == l.window_size
        padr == (ws - (s[4] % ws)) % ws
        padb == (ws - (s[3] % ws)) % ws
        Hp   == s[3] + padb
        Wp   == s[4] + padr
        a    == ISqrt(ws * ws)
        berr == IF l.depth = 0 THEN "none"
                ELSE IF l.conv
                     THEN (IF s[2] # l.dim THEN "RuntimeError" ELSE "none")
                     ELSE IF a % 2 # 0 THEN "AssertionError"
                     ELSE IF s[2] # l.dim THEN "RuntimeError" ELSE "none"
    IN  IF berr # "none" THEN [shape |-> s, err |-> berr]
        ELSE IF ~l.downsample THEN [shape |-> s, err |-> "none"]
        ELSE IF s[2] # l.dim THEN [shape |-> s, err |-> "RuntimeError"]
        ELSE [shape |-> <<s[1], DownsampleOut(l.dim), ConvDown(s[3]), ConvDown(s[4])>>,
              err |-> "none"]

ImgSizes == { 224 + 32 * k : k \in 0..MaxImgSteps }

InitNet ==
    /\ pc = "factory"
    /\ variant \in FactoryNames
    /\ \E B \in 1..MaxB, n \in ImgSizes : feat = <<B, 3, n, n>>
    /\ levels = <<>> /\ num_features = 0 /\ lvl = 0 /\ err = "none"
    /\ IdleScan /\ IdleSort /\ IdleWin /\ IdleLoad /\ IdleMix

\* TransMamba.__init__ up to the loop over the stages
ConstructStart ==
    /\ pc = "factory"
    /\ num_features' = NumFeatures(Factories[variant])
    /\ lvl' = 0
    /\ pc' = "init_levels"
    /\ UNCHANGED <<variant, levels, feat, err, scanVars, sortVars, winVars, loadVars, mixVars>>

\* one iteration of: for i in range(len(depths)): self.levels.append(level)
ConstructLevel ==
    /\ pc = "init_levels"
    /\ lvl < Len(Factories[variant].depths)
    /\ levels' = Append(levels, MakeLevel(Factories[variant], lvl))
    /\ lvl' = lvl + 1
    /\ UNCHANGED <<pc, variant, num_features, feat, err, scanVars, sortVars, winVars, loadVars, mixVars>>

\* the rest of __init__: norm, avgpool, head, keys_4, ss
ConstructEnd ==
    /\ pc = "init_levels"
    /\ lvl = Len(Factories[variant].depths)
    /\ pc' = "built"
    /\ UNCHANGED <<variant, levels, num_features, lvl, feat, err, scanVars, sortVars, winVars, loadVars, mixVars>>

\* forward_features: x = self.patch_embed(x)
ForwardPatchEmbed ==
    /\ pc = "built"
    /\ LET r == PatchEmbedForward(Factories[variant], feat)
       IN  /\ feat' = r.shape
           /\ err' = r.err
           /\ pc' = IF r.err = "none" THEN "levels" ELSE "raised"
    /\ lvl' = 0
    /\ UNCHANGED <<variant, levels, num_features, scanVars, sortVars, winVars, loadVars, mixVars>>

\* forward_features: one iteration of: for level in self.levels: x = level(x)
ForwardLevel ==
    /\ pc = "levels"
    /\ lvl < Len(levels)
    /\ LET r == LevelForward(levels[lvl + 1], feat)
       IN  /\ feat' = r.shape
           /\ err' = r.err
           /\ pc' = IF r.err = "none" THEN "levels" ELSE "raised"
           /\ lvl' = IF r.err = "none" THEN lvl + 1 ELSE lvl
    /\ UNCHANGED <<variant, levels, num_features, scanVars, sortVars, winVars, loadVars, mixVars>>

\* forward_features: x = self.norm(x), a BatchNorm2d(num_features)
ForwardNorm ==
    /\ pc = "levels"
    /\ lvl = Len(levels)
    /\ err' = IF feat[2] # num_features THEN "RuntimeError" ELSE "none"
    /\ pc' = IF feat[2] # num_features THEN "raised" ELSE "normed"
    /\ UNCHANGED <<variant, levels, num_features, lvl, feat, scanVars, sortVars, winVars, loadVars, mixVars>>

\* the rest of forward_features on the normalised x of shape s = (B, C, H, W):
\* the four centre tokens x[:, :, 6..7, 6..7] give z of shape (B, 4, C),
\* keys_4 = nn.Linear(4, 1) is applied to z, SoftSort orders the tokens,
\* self.mixer (d_model = num_features) mixes them, the last token is returned
OrderTokensForward(s, nf) ==
    LET B    == s[1]
        C    == s[2]
        \* torch.cat of four (B, C, 1) along dim -1, then z.transpose(1, 2)
        z    == <<B, 4, C>>
        \* self.keys_4(z): nn.Linear(4, 1) along the last dimension of z
        ord_token == <<B, 4, 1>>
        \* matmul((B, 1, 4), (B, 4, C)).transpose(1, 2).squeeze(-1)
        dot_prod == <<B, C>>
        \* self.ss(-dot_prod): (B, n, n) for scores (B, n)
        perm_matrix == <<B, dot_prod[2], dot_prod[2]>>
        \* einsum 'bij,bjk->bik' of z (b, i, j) and perm_matrix (b, j, k)
        ordered == <<B, z[2], perm_matrix[3]>>
    IN  IF s[3] < 8 \/ s[4] < 8 THEN [shape |-> s, err |-> "IndexError"]
        ELSE IF z[3] # 4 THEN [shape |-> z, err |-> "RuntimeError"]
        ELSE IF z[3] # perm_matrix[2] THEN [shape |-> z, err |-> "RuntimeError"]
        ELSE IF ordered[3] # nf \/ nf % 2 # 0
             THEN [shape |-> ordered, err |-> "RuntimeError"]
        ELSE [shape |-> <<B, ordered[3]>>, err |-> "none"]

ForwardOrderTokens ==
    /\ pc = "normed"
    /\ LET r == OrderTokensForward(feat, num_features)
       IN  /\ feat' = r.shape
           /\ err' = r.err
           /\ pc' = IF r.err = "none" THEN "features" ELSE "raised"
    /\ UNCHANGED <<variant, levels, num_features, lvl, scanVars, sortVars, winVars, loadVars, mixVars>>

NextNet ==
    \/ ConstructStart \/ ConstructLevel \/ ConstructEnd
    \/ ForwardPatchEmbed \/ ForwardLevel \/ ForwardNorm \/ ForwardOrderTokens

SpecNet == InitNet /\ [][NextNet]_vars

Constructed == pc \in {"built", "levels", "normed", "features", "raised"}

\* C4 as stated: every registered factory builds exactly four stages, stages
\* 0 and 1 convolutional and stages 2 and 3 Block stages
C4_FourStages ==
    Constructed =>
        /\ Len(levels) = 4
        /\ \A i \in 1..Len(levels) : levels[i].conv <=> (i <= 2)

\* C4 amended: TransMamba_T builds exactly three stages and the other five
\* factories exactly four; in each, stages 0 and 1 are convolutional and
\* every later stage is a Block stage
C4_StagesPerVariant ==
    Constructed =>
        /\ Len(levels) = (IF variant = "TransMamba_T" THEN 3 ELSE 4)
        /\ Len(levels) = Len(Factories[variant].depths)
        /\ \A i \in 1..Len(levels) : levels[i].conv <=> (i <= 2)

C4_Witness ==
    /\ pc = "built"
    /\ variant = "TransMamba_T"
    /\ Len(levels) = 3
    /\ levels[2].conv /\ ~levels[3].conv

\* the channel count leaving stage i (counted from 1) when its input matches
ChannelsOut(i) ==
    IF levels[i].downsample THEN DownsampleOut(levels[i].dim) ELSE levels[i].dim

\* C5: the stages chain: the channel count leaving a stage is the dim the
\* next stage was constructed with, and the channel count leaving the last
\* stage is num_features
C5_StagesChain ==
    Constructed =>
        /\ \A i \in 1..(Len(levels) - 1) : ChannelsOut(i) = levels[i + 1].dim
        /\ ChannelsOut(Len(levels)) = num_features

\* C12: the assertion a % 2 == 0 of scanning holds on every call a forward
\* pass of a registered variant makes: no forward pass ends in the
\* AssertionError, and every Block stage the pass is about to enter has a
\* window whose side a = int(sqrt(window_size * window_size)) is even
C12_ScanningAssertHolds ==
    /\ err # "AssertionError"
    /\ (pc = "levels" /\ lvl < Len(levels)
            /\ ~levels[lvl + 1].conv /\ levels[lvl + 1].depth > 0)
        => ISqrt(levels[lvl + 1].window_size * levels[lvl + 1].window_size) % 2 = 0

\* C14: in forward_features every step after the norm receives the
\* dimensions it was declared for (keys_4 along a dimension of size 4, the
\* einsum over matching sizes, self.mixer along num_features), so that from
\* the normalised x of shape (B, num_features, H, W) the method returns a
\* tensor of shape (B, num_features) without raising
C14_OrderTokensShapes ==
    /\ pc = "normed" =>
           OrderTokensForward(feat, num_features) =
               [shape |-> <<feat[1], num_features>>, err |-> "none"]
    /\ (pc = "raised" /\ Len(feat) = 3) => err = "none"

(* ---------------- _load_state_dict / _load_checkpoint ---------------- *)
\* A key is the sequence of its dot-separated components; a state dict is a
\* sequence of items [key, val] with pairwise distinct keys, in insertion
\* order; val is "new" (a tensor of the right shape) or "badshape".
KeyW   == <<"w">>
KeyNbt == <<"bn", "num_batches_tracked">>
KeyU   == <<"u">>

\* the components in the order Python compares the strings
CompRank(c) ==
    CASE c = "bn" -> 1
      [] c = "encoder" -> 2
      [] c = "encoder_q" -> 3
      [] c = "module" -> 4
      [] c = "num_batches_tracked" -> 5
      [] c = "u" -> 6
      [] c = "w" -> 7

RECURSIVE KeyLess(_, _)
KeyLess(k1, k2) ==
    IF k1 = <<>> THEN k2 # <<>>
    ELSE IF k2 = <<>> THEN FALSE
    ELSE IF Head(k1) # Head(k2) THEN CompRank(Head(k1)) < CompRank(Head(k2))
    ELSE KeyLess(Tail(k1), Tail(k2))

Keys(sd) == { sd[i].key : i \in 1..Len(sd) }

ValOf(sd, k) == sd[CHOOSE i \in 1..Len(sd) : sd[i].key = k].val

\* a dict comprehension over the items of sd: a repeated key keeps its first
\* position and takes the last value
RECURSIVE DictFrom(_)
DictFrom(items) ==
    IF items = <<>> THEN <<>>
    ELSE LET init == DictFrom(SubSeq(items, 1, Len(items) - 1))
             last == items[Len(items)]
         IN  IF last.key \in Keys(init)
             THEN [i \in 1..Len(init) |->
                     IF init[i].key = last.key THEN last ELSE init[i]]
             ELSE Append(init, last)

\* 'num_batches_tracked' not in key
CountsAsMissingAll(k) == TRUE

CountsAsMissing(k) == \A i \in 1..Len(k) : k[i] # "num_batches_tracked"

\* load(module): torch's _load_from_state_dict over the module tree, called
\* with strict=True: what it leaves in all_missing_keys, unexpected_keys,
\* err_msg and in the module's parameters
LoaderMissing(ps, sd) == { k \in DOMAIN ps : k \notin Keys(sd) }

LoaderUnexpected(ps, sd) == { k \in Keys(sd) : k \notin DOMAIN ps }

LoaderErrors(ps, sd) == { k \in DOMAIN ps : k \in Keys(sd) /\ ValOf(sd, k) = "badshape" }

LoaderParams(ps, sd) ==
    [k \in DOMAIN ps |->
        IF k \in Keys(sd) /\ ValOf(sd, k) = "new" THEN "new" ELSE ps[k]]

RECURSIVE SortedKeys(_)
SortedKeys(S) ==
    IF S = {} THEN <<>>
    ELSE LET m == CHOOSE k \in S : \A o \in S : o = k \/ KeyLess(k, o)
         IN  <<m>> \o SortedKeys(S \ {m})

\* err_msg as it stands at "if len(err_msg) > 0"
ErrMsg(errs, unexpected, missing) ==
    [i \in 1..Cardinality(errs) |-> [tag |-> "size mismatch", keys |-> {SortedKeys(errs)[i]}]]
    \o (IF unexpected # {}
        THEN <<[tag |-> "unexpected key in source state_dict", keys |-> unexpected]>>
        ELSE <<>>)
    \o (IF missing # {}
        THEN <<[tag |-> "missing keys in source state_dict", keys |-> missing]>>
        ELSE <<>>)

Header == [tag |-> "The model and loaded state dict do not match exactly", keys |-> {}]

\* the tail of _load_state_dict: raise, logger.warning or print
ReportPrintsAlways(msg, st, lg) ==
    IF Len(msg) > 0
    THEN IF st THEN [raised |-> "RuntimeError:mismatch", warned |-> <<>>, printed |-> <<>>]
         ELSE [raised |-> "none", warned |-> <<>>, printed |-> <<<<Header>> \o msg>>]
    ELSE [raised |-> "none", warned |-> <<>>, printed |-> <<>>]

Report(msg, st, lg) ==
    IF Len(msg) > 0
    THEN IF st THEN [raised |-> "RuntimeError:mismatch", warned |-> <<>>, printed |-> <<>>]
         ELSE IF lg THEN [raised |-> "none", warned |-> <<<<Header>> \o msg>>, printed |-> <<>>]
         ELSE [raised |-> "none", warned |-> <<>>, printed |-> <<<<Header>> \o msg>>]
    ELSE [raised |-> "none", warned |-> <<>>, printed |-> <<>>]

\* _load_state_dict(module, state_dict, strict, logger) as a whole
LoadStateDictResult(ps, sd, st, lg) ==
    LET unexpected == LoaderUnexpected(ps, sd)
        allmissing == LoaderMissing(ps, sd)
        errs       == LoaderErrors(ps, sd)
        missing    == { k \in allmissing : CountsAsMissing(k) }
        rep        == Report(ErrMsg(errs, unexpected, missing), st, lg)
    IN  [params |-> LoaderParams(ps, sd), unexpected |-> unexpected,
         allmissing |-> allmissing, errs |-> errs,
         raised |-> rep.raised, warned |-> rep.warned, printed |-> rep.printed]

\* isinstance(checkpoint, dict)
IsDictAlways(ck) == TRUE

IsDict(ck) == ck.type \in {"dict", "OrderedDict"}

\* the state dict _load_checkpoint takes out of the checkpoint
SelectStateDict(ck) ==
    IF "state_dict" \in ck.has THEN ck.state_dict
    ELSE IF "model" \in ck.has THEN ck.model
    ELSE ck.rest

\* k.startswith('module.') and k[7:]
StartsWithModule(k) == Len(k) > 1 /\ k[1] = "module"

StripModule(sd) == DictFrom([i \in 1..Len(sd) |-> [key |-> Tail(sd[i].key), val |-> sd[i].val]])

\* k.startswith('encoder'), k.startswith('encoder.') and k.replace('encoder.', '')
StartsWithEncoder(k) == k[1] \in {"encoder", "encoder_q"}

StartsWithEncoderDot(k) == Len(k) > 1 /\ k[1] = "encoder"

RECURSIVE RemoveEncoder(_)
RemoveEncoder(k) ==
    IF Len(k) <= 1 THEN k
    ELSE IF Head(k) = "encoder" THEN RemoveEncoder(Tail(k))
    ELSE <<Head(k)>> \o RemoveEncoder(Tail(k))

StripEncoder(sd) ==
    LET kept == SelectSeq(sd, LAMBDA it : StartsWithEncoderDot(it.key))
    IN  DictFrom([i \in 1..Len(kept) |->
                    [key |-> RemoveEncoder(kept[i].key), val |-> kept[i].val]])

FirstSorted(sd) == CHOOSE k \in Keys(sd) : \A o \in Keys(sd) : o = k \/ KeyLess(k, o)

\* _load_checkpoint(model, filename, strict=strict, logger=logger) as a whole;
\* ck is what torch.load returned
LoadCheckpointResult(ps, ck, st, lg) ==
    LET untouched(e) ==
            [params |-> ps, sd |-> <<>>, unexpected |-> {}, allmissing |-> {}, errs |-> {},
             raised |-> e, warned |-> <<>>, printed |-> <<>>,
             calls |-> <<"_load_checkpoint">>]
    IN  IF ~IsDict(ck) THEN untouched("RuntimeError:no_state_dict")
        ELSE LET sd0 == SelectStateDict(ck)
             IN  IF sd0 = <<>> THEN untouched("IndexError")
                 ELSE LET sd1 == IF StartsWithModule(sd0[1].key) THEN StripModule(sd0) ELSE sd0
                          sd2 == IF StartsWithEncoder(FirstSorted(sd1)) THEN StripEncoder(sd1) ELSE sd1
                          r   == LoadStateDictResult(ps, sd2, st, lg)
                      IN  [params |-> r.params, sd |-> sd2, unexpected |-> r.unexpected,
                           allmissing |-> r.allmissing, errs |-> r.errs,
                           raised |-> r.raised, warned |-> r.warned, printed |-> r.printed,
                           calls |-> <<"_load_checkpoint", "_load_state_dict">>]

\* the inputs: module parameters, state dicts and checkpoints
ModuleKeySets == { {KeyW}, {KeyW, KeyNbt} }

PlainKeys == { KeyW, KeyNbt, KeyU, <<"encoder">> \o KeyW, <<"encoder">> \o KeyNbt,
               <<"encoder">> \o KeyU, <<"encoder_q">> \o KeyW }

ModuleKeys == { <<"module">> \o KeyW, <<"module">> \o KeyNbt, <<"module">> \o KeyU,
                <<"module", "encoder">> \o KeyW }

DictsOver(K) ==
    UNION { { sd \in [1..n -> [key : K, val : {"new", "badshape"}]] :
                \A i, j \in 1..n : i # j => sd[i].key # sd[j].key } : n \in 0..MaxKeys }

\* every key of a checkpoint saved from a wrapped model carries 'module.';
\* dicts mixing prefixed and unprefixed keys are left out
StateDicts == DictsOver(PlainKeys) \cup DictsOver(ModuleKeys)

Checkpoints ==
    { [type |-> t, has |-> {}, state_dict |-> <<>>, model |-> <<>>, rest |-> <<>>] :
            t \in {"list", "Tensor", "NoneType"} }
    \cup { [type |-> t, has |-> {"state_dict"}, state_dict |-> sd, model |-> <<>>, rest |-> <<>>] :
            t \in {"dict", "OrderedDict"}, sd \in StateDicts }
    \cup { [type |-> "dict", has |-> {"model"}, state_dict |-> <<>>, model |-> sd, rest |-> <<>>] :
            sd \in StateDicts }
    \cup { [type |-> "dict", has |-> {"state_dict", "model"}, state_dict |-> sd,
            model |-> <<[key |-> KeyU, val |-> "new"]>>, rest |-> <<>>] :
            sd \in DictsOver({KeyW, KeyNbt}) }
    \cup { [type |-> "OrderedDict", has |-> {}, state_dict |-> <<>>, model |-> <<>>, rest |-> sd] :
            sd \in StateDicts }

NoCheckpoint == [type |-> "NoneType", has |-> {}, state_dict |-> <<>>, model |-> <<>>, rest |-> <<>>]

InitLoad ==
    /\ pc \in {"lsd_start", "lc_start"}
    /\ \E mk \in ModuleKeySets : params = [k \in mk |-> "old"]
    /\ IF pc = "lsd_start"
       THEN checkpoint = NoCheckpoint /\ state_dict \in StateDicts
       ELSE checkpoint \in Checkpoints /\ state_dict = <<>>
    /\ strict \in BOOLEAN
    /\ logger \in BOOLEAN
    /\ calls = <<>>
    /\ unexpected_keys = {} /\ all_missing_keys = {} /\ load_errors = {}
    /\ raised = "none" /\ warned = <<>> /\ printed = <<>>
    /\ IdleScan /\ IdleSort /\ IdleWin /\ IdleNet /\ IdleMix

LoadStateDict ==
    /\ pc = "lsd_start"
    /\ LET r == LoadStateDictResult(params, state_dict, strict, logger)
       IN  /\ params' = r.params
           /\ unexpected_keys' = r.unexpected
           /\ all_missing_keys' = r.allmissing
           /\ load_errors' = r.errs
           /\ raised' = r.raised
           /\ warned' = r.warned
           /\ printed' = r.printed
    /\ calls' = <<"_load_state_dict">>
    /\ pc' = "load_done"
    /\ UNCHANGED <<checkpoint, state_dict, strict, logger, scanVars, sortVars, winVars, netVars, mixVars>>

LoadCheckpoint ==
    /\ pc = "lc_start"
    /\ LET r == LoadCheckpointResult(params, checkpoint, strict, logger)
       IN  /\ params' = r.params
           /\ state_dict' = r.sd
           /\ unexpected_keys' = r.unexpected
           /\ all_missing_keys' = r.allmissing
           /\ load_errors' = r.errs
           /\ raised' = r.raised
           /\ warned' = r.warned
           /\ printed' = r.printed
           /\ calls' = r.calls
    /\ pc' = "load_done"
    /\ UNCHANGED <<checkpoint, strict, logger, scanVars, sortVars, winVars, netVars, mixVars>>

NextLoad == LoadStateDict \/ LoadCheckpoint

SpecLoad == InitLoad /\ [][NextLoad]_vars

\* _load_state_dict ran to its end (or to its raise)
StateDictLoaded == pc = "load_done" /\ calls[Len(calls)] = "_load_state_dict"

AnyMismatch ==
    \/ unexpected_keys # {}
    \/ { k \in all_missing_keys : \A i \in 1..Len(k) : k[i] # "num_batches_tracked" } # {}
    \/ load_errors # {}

\* C8: with strict=True, _load_state_dict raises RuntimeError exactly when
\* the unexpected keys, the missing keys without 'num_batches_tracked' or the
\* loader's error messages are not all empty; when all are empty it returns
\* without raising and without a message
C8_StrictRaisesIff ==
    (StateDictLoaded /\ strict) =>
        /\ (raised = "RuntimeError:mismatch") <=> AnyMismatch
        /\ ~AnyMismatch => (raised = "none" /\ warned = <<>> /\ printed = <<>>)

C8_Witness ==
    /\ StateDictLoaded /\ strict
    /\ raised = "none"
    /\ all_missing_keys = {KeyNbt}
    /\ params[KeyW] = "new"

C10_NonDictRaises ==
    (pc = "load_done" /\ calls[1] = "_load_checkpoint"
        /\ checkpoint.type \notin {"dict", "OrderedDict"}) =>
        /\ raised = "RuntimeError:no_state_dict"
        /\ calls = <<"_load_checkpoint">>
        /\ \A k \in DOMAIN params : params[k] = "old"
        /\ warned = <<>> /\ printed = <<>>

C10_Witness ==
    /\ pc = "load_done"
    /\ calls = <<"_load_checkpoint">>
    /\ checkpoint.type = "list"
    /\ strict
    /\ raised = "RuntimeError:no_state_dict"
    /\ DOMAIN params = {KeyW, KeyNbt}

(* ---------------- MambaVisionMixer ---------------- *)
\* math.ceil(self.d_model / 16)
CeilDiv(n, d) == (n + d - 1) \div d

\* MambaVisionMixer.__init__: the sizes its layers are built with; nn.Conv1d
\* refuses groups = 0
MakeMixer(d_model, d_state, d_conv, expand) ==
    LET d_inner == expand * d_model
    IN  [d_model |-> d_model, d_state |-> d_state, d_conv |-> d_conv,
         expand |-> expand, d_inner |-> d_inner,
         dt_rank |-> CeilDiv(d_model, 16),
         in_proj |-> <<d_model, d_inner>>,
         x_proj |-> <<d_inner \div 2, CeilDiv(d_model, 16) + d_state * 2>>,
         dt_proj |-> <<CeilDiv(d_model, 16), d_inner \div 2>>,
         out_proj |-> <<d_inner, d_model>>,
         conv_channels |-> d_inner \div 2,
         err |-> IF d_inner \div 2 = 0 THEN "ValueError" ELSE "none"]

\* nn.Linear(in, out) on a tensor whose last dimension is n
LinearOut(lin, n) == IF n = lin[1] THEN lin[2] ELSE -1

\* Tensor.chunk(2, dim=1) of n channels: the sizes of the chunks
ChunkSizes(n) ==
    LET c == CeilDiv(n, 2)
    IN  IF n - c > 0 THEN <<c, n - c>> ELSE <<c>>

\* torch.cat([y, z], dim=1): the channel count
CatChannelsDropsZ(cy, cz) == cy

CatChannels(cy, cz) == cy + cz

\* F.conv1d(.., padding='same', groups=g) with a weight of g output channels
\* and one input channel per group, on (B, c, L)
Conv1dSame(s, g) ==
    IF s[2] # g THEN [shape |-> s, err |-> "RuntimeError"]
    ELSE [shape |-> <<s[1], g, s[3]>>, err |-> "none"]

MixerInputs ==
    { [d_model |-> D, d_state |-> ds, d_conv |-> dc, expand |-> e, shape |-> <<B, L, D>>] :
        D \in 1..MaxD, ds \in {8, 16}, dc \in {3, 4}, e \in 1..MaxExpand,
        B \in 1..MaxB, L \in 1..MaxL }

InitMix ==
    /\ pc = "mixer_new"
    /\ \E i \in MixerInputs :
        /\ mixer = [d_model |-> i.d_model, d_state |-> i.d_state,
                    d_conv |-> i.d_conv, expand |-> i.expand]
        /\ hidden_states = i.shape
    /\ xz = <<>> /\ mx_x = <<>> /\ mx_z = <<>> /\ mx_y = <<>> /\ mx_out = <<>>
    /\ mx_err = "none"
    /\ IdleScan /\ IdleSort /\ IdleWin /\ IdleNet /\ IdleLoad

\* MambaVisionMixer.__init__
MixerConstruct ==
    /\ pc = "mixer_new"
    /\ LET m == MakeMixer(mixer.d_model, mixer.d_state, mixer.d_conv, mixer.expand)
       IN  /\ mixer' = m
           /\ mx_err' = m.err
           /\ pc' = IF m.err = "none" THEN "mixer_built" ELSE "mixer_raised"
    /\ UNCHANGED <<hidden_states, xz, mx_x, mx_z, mx_y, mx_out,
                   scanVars, sortVars, winVars, netVars, loadVars>>

\* forward: xz = self.in_proj(hidden_states); rearrange "b l d -> b d l"
MixerInProj ==
    /\ pc = "mixer_built"
    /\ LET d == LinearOut(mixer.in_proj, hidden_states[3])
       IN  IF d < 0
           THEN /\ mx_err' = "RuntimeError" /\ pc' = "mixer_raised" /\ xz' = xz
           ELSE /\ xz' = <<hidden_states[1], d, hidden_states[2]>>
                /\ pc' = "mixer_projected" /\ mx_err' = mx_err
    /\ UNCHANGED <<mixer, hidden_states, mx_x, mx_z, mx_y, mx_out,
                   scanVars, sortVars, winVars, netVars, loadVars>>

\* forward: x, z = xz.chunk(2, dim=1)
MixerChunk ==
    /\ pc = "mixer_projected"
    /\ LET c == ChunkSizes(xz[2])
       IN  IF Len(c) # 2
           THEN /\ mx_err' = "ValueError" /\ pc' = "mixer_raised"
                /\ mx_x' = mx_x /\ mx_z' = mx_z
           ELSE /\ mx_x' = <<xz[1], c[1], xz[3]>>
                /\ mx_z' = <<xz[1], c[2], xz[3]>>
                /\ pc' = "mixer_chunked" /\ mx_err' = mx_err
    /\ UNCHANGED <<mixer, hidden_states, xz, mx_y, mx_out,
                   scanVars, sortVars, winVars, netVars, loadVars>>

\* forward: x = F.silu(F.conv1d(x, ..)); z = F.silu(F.conv1d(z, ..))
MixerConv ==
    /\ pc = "mixer_chunked"
    /\ LET cx == Conv1dSame(mx_x, mixer.conv_channels)
           cz == Conv1dSame(mx_z, mixer.conv_channels)
       IN  IF cx.err # "none" \/ cz.err # "none"
           THEN /\ mx_err' = "RuntimeError" /\ pc' = "mixer_raised"
                /\ mx_x' = mx_x /\ mx_z' = mx_z
           ELSE /\ mx_x' = cx.shape /\ mx_z' = cz.shape
                /\ pc' = "mixer_convolved" /\ mx_err' = mx_err
    /\ UNCHANGED <<mixer, hidden_states, xz, mx_y, mx_out,
                   scanVars, sortVars, winVars, netVars, loadVars>>

\* forward: x_proj, torch.split, dt_proj and selective_scan_fn, whose result
\* has the shape of x
MixerScan ==
    /\ pc = "mixer_convolved"
    /\ LET dbl == LinearOut(mixer.x_proj, mx_x[2])
           dt  == IF dbl = mixer.dt_rank + mixer.d_state + mixer.d_state
                  THEN LinearOut(mixer.dt_proj, mixer.dt_rank) ELSE -1
       IN  IF dbl < 0 \/ dt # mx_x[2]
           THEN /\ mx_err' = "RuntimeError" /\ pc' = "mixer_raised" /\ mx_y' = mx_y
           ELSE /\ mx_y' = mx_x
                /\ pc' = "mixer_scanned" /\ mx_err' = mx_err
    /\ UNCHANGED <<mixer, hidden_states, xz, mx_x, mx_z, mx_out,
                   scanVars, sortVars, winVars, netVars, loadVars>>

\* forward: y = torch.cat([y, z], dim=1); rearrange "b d l -> b l d"; out_proj
MixerOutProj ==
    /\ pc = "mixer_scanned"
    /\ LET c == CatChannels(mx_y[2], mx_z[2])
           d == LinearOut(mixer.out_proj, c)
       IN  IF mx_y[1] # mx_z[1] \/ mx_y[3] # mx_z[3] \/ d < 0
           THEN /\ mx_err' = "RuntimeError" /\ pc' = "mixer_raised"
                /\ mx_out' = <<mx_y[1], mx_y[3], c>>
           ELSE /\ mx_out' = <<mx_y[1], mx_y[3], d>>
                /\ pc' = "mixer_done" /\ mx_err' = mx_err
    /\ UNCHANGED <<mixer, hidden_states, xz, mx_x, mx_z, mx_y,
                   scanVars, sortVars, winVars, netVars, loadVars>>

NextMix ==
    \/ MixerConstruct \/ MixerInProj \/ MixerChunk
    \/ MixerConv \/ MixerScan \/ MixerOutProj

SpecMix == InitMix /\ [][NextMix]_vars

\* the constructor returned and forward has returned or raised
MixerForwardEnded ==
    \/ pc = "mixer_done"
    \/ pc = "mixer_raised" /\ DOMAIN mixer # {"d_model", "d_state", "d_conv", "expand"}
                           /\ mixer.err = "none"

Quadrant(t, a, r, c) ==
    Slice(t, <<0, r * (a \div 2), c * (a \div 2), 0>>,
             <<t.shape[1], (r + 1) * (a \div 2), (c + 1) * (a \div 2), t.shape[4]>>)

ScanFlatten(q, a) ==
    Squeeze(View(q, <<q.shape[1],
                      Numel(q) \div (q.shape[1] * ((a * a) \div 4) * q.shape[4]),
                      (a * a) \div 4, q.shape[4]>>), 1)

scanning(t) ==
    LET a == ISqrt(t.shape[2])
        v == View(t, <<t.shape[1], a, a, t.shape[3]>>)
    IN  <<ScanFlatten(Quadrant(v, a, 0, 0), a),
          ScanFlatten(Flip(Quadrant(v, a, 0, 1), {1}), a),
          ScanFlatten(Flip(Quadrant(v, a, 1, 0), {0}), a),
          ScanFlatten(Flip(Quadrant(v, a, 1, 1), {0, 1}), a)>>

reverse(t1, t2, t3, t4) ==
    LET a  == ISqrt(t1.shape[2]) * 2
        h  == a \div 2
        B  == t1.shape[1]
        C  == t1.shape[3]
        z  == View([shape |-> <<B, a * a, C>>,
                    data |-> [k \in 1..(B * a * a * C) |-> 0]], <<B, a, a, C>>)
        q1 == View(t1, <<t1.shape[1], h, h, t1.shape[3]>>)
        q2 == View(Flip(t2, {1}), <<t2.shape[1], h, h, t2.shape[3]>>)
        q3 == View(Flip(t3, {0}), <<t3.shape[1], h, h, t3.shape[3]>>)
        q4 == View(Flip(t4, {0, 1}), <<t4.shape[1], h, h, t4.shape[3]>>)
        w1 == SliceAssign(z,  <<0, 0, 0, 0>>, <<B, h, h, C>>, q1)
        w2 == SliceAssign(w1, <<0, 0, h, 0>>, <<B, h, a, C>>, q2)
        w3 == SliceAssign(w2, <<0, h, 0, 0>>, <<B, a, h, C>>, q3)
        w4 == SliceAssign(w3, <<0, h, h, 0>>, <<B, a, a, C>>, q4)
    IN  View(w4, <<w4.shape[1], w4.shape[2] * w4.shape[3], w4.shape[4]>>)

ScanInputs ==
    { Arange(<<B, (2 * h) * (2 * h), C>>, s) :
        B \in 1..MaxB, h \in 1..MaxHalf, C \in 1..MaxC, s \in 0..MaxStart }

InitScan ==
    /\ pc = "scan_start"
    /\ IdleSort /\ IdleWin /\ IdleNet /\ IdleLoad /\ IdleMix
    /\ x \in ScanInputs
    /\ x1 = Empty /\ x2 = Empty /\ x3 = Empty /\ x4 = Empty
    /\ y = Empty

Scanning ==
    /\ pc = "scan_start"
    /\ ISqrt(x.shape[2]) % 2 = 0
    /\ LET r == scanning(x)
       IN  /\ x1' = r[1] /\ x2' = r[2] /\ x3' = r[3] /\ x4' = r[4]
    /\ pc' = "scanned"
    /\ UNCHANGED <<x, y, sortVars, winVars, netVars, loadVars, mixVars>>

Reverse ==
    /\ pc = "scanned"
    /\ y' = reverse(x1, x2, x3, x4)
    /\ pc' = "reversed"
    /\ UNCHANGED <<x, x1, x2, x3, x4, sortVars, winVars, netVars, loadVars, mixVars>>

NextScan == Scanning \/ Reverse

SpecScan == InitScan /\ [][NextScan]_vars

\* C1: after scanning followed by reverse every token is back at its place
C1_RoundTrip == pc = "reversed" => y = x

\* x[b] of a tensor (B, L, C), kept as a tensor (1, L, C)
BatchElement(t, b) ==
    Slice(t, <<b, 0, 0>>, <<b + 1, t.shape[2], t.shape[3]>>)

\* the input with every value of batch element c changed to v
WithBatchElement(t, c, v) ==
    FromFn(t.shape, LAMBDA idx : IF idx[1] = c THEN v ELSE At(t, idx))

\* C13: the four sequences scanning returns at batch index b depend only on
\* batch element b of the input: changing any other batch element c leaves
\* the four sequences at index b as they were
C13_BatchIndependent ==
    pc = "scanned" =>
        \A b \in 0..(x.shape[1] - 1) : \A c \in 0..(x.shape[1] - 1) \ {b} :
            LET r == scanning(WithBatchElement(x, c, -1))
            IN  /\ BatchElement(r[1], b) = BatchElement(x1, b)
                /\ BatchElement(r[2], b) = BatchElement(x2, b)
                /\ BatchElement(r[3], b) = BatchElement(x3, b)
                /\ BatchElement(r[4], b) = BatchElement(x4, b)

====
